---- MODULE Spec2Model ----
(***************************************************************************)
(* Model of Calibration.py: the Calibration / InhomogenousCalibration      *)
(* objects, their objective functions, the optimiser call in Calibrate and *)
(* the goodness-of-fit queries.                                            *)
(*                                                                         *)
(* Reals are modelled exactly.  Parameters are integers in units of 0.01,  *)
(* spreads are integers, and a quotient or a square root is kept as the    *)
(* pair <<numerator, denominator>> it is taken of, so sqrt(s/n) is the     *)
(* pair <<s, n>> and two such values are equal as reals iff their cross    *)
(* products are equal.  Floating-point rounding is not modelled.           *)
(***************************************************************************)
EXTENDS Integers, Sequences, FiniteSets, TLC

VARIABLES cls, DiscountCurve, MarketData, CDS, Process, N, Guess,
          calibrated_gamma, ret

vars == <<cls, DiscountCurve, MarketData, CDS, Process, N, Guess,
          calibrated_gamma, ret>>

\* ---------------------------------------------------------------- bounds
\* Largest number of tenors of a MarketData object.
MaxTenors == 2

\* ------------------------------------------------------------ value sets
\* Python's None, for Process and calibrated_gamma.
None == <<>>
\* 0.01 in parameter units: the component of the default guess.
GuessComponent == 1
TenorVals == 1..MaxTenors
SpreadVals == {1, 2}
ParamVals == {0 - 1, 1, 2}

\* The MarketData objects: (tenor, market_spread) pairs with unique tenors,
\* in any order, at least one.
DataSets ==
    LET Raw == UNION {[1..n -> TenorVals \X SpreadVals] : n \in 1..MaxTenors}
    IN {d \in Raw : \A i, j \in 1..Len(d) : i # j => d[i][1] # d[j][1]}

\* The parameter vectors of n components.
Vectors(n) == [1..n -> ParamVals]

\* ------------------------------------------------------- MarketData, sort
Tenors(md) == [i \in 1..Len(md) |-> md[i][1]]

Data(md) == md

\* Python's sorted() on a list of distinct numbers.
RECURSIVE sortedFrom(_)
sortedFrom(S) ==
    IF S = {} THEN <<>>
    ELSE LET m == CHOOSE x \in S : \A y \in S : x <= y
         IN <<m>> \o sortedFrom(S \ {m})

sorted(s) == sortedFrom({s[i] : i \in 1..Len(s)})

\* sorted() on the (tenor, spread) pairs: by tenor, the tenors being unique.
sortedData(md) ==
    LET ts == sorted(Tenors(md))
    IN [i \in 1..Len(ts) |-> CHOOSE p \in {md[k] : k \in 1..Len(md)} : p[1] = ts[i]]

\* list.index(t), counted from 1; 0 when t is absent.
index(s, t) ==
    IF \E i \in 1..Len(s) : s[i] = t
    THEN CHOOSE i \in 1..Len(s) : s[i] = t
    ELSE 0

\* ----------------------------------------------------- results of a call
Ok(v) == [ok |-> TRUE, exc |-> "", v |-> v]
Raise(e) == [ok |-> FALSE, exc |-> e, v |-> 0]

\* ------------------------------------------------------- pricing models
\* The pricers live in CDS.py.  Each is a deterministic function of its
\* constructor arguments and the parameter vector that returns a spread or
\* raises; what follows is the smallest such family with a domain of
\* definition: a negative intensity is outside it.

\* Hazard accumulated up to the k-th point of a sorted tenor grid by the
\* piecewise constant intensities gamma[1..k].
RECURSIVE Hazard(_, _, _)
Hazard(grid, gamma, k) ==
    IF k = 0 THEN 0
    ELSE Hazard(grid, gamma, k - 1)
         + gamma[k] * (grid[k] - (IF k = 1 THEN 0 ELSE grid[k - 1]))

\* HPCreditDefaultSwap(DiscountCurve, maturity).ParSpread(gamma)
HP_ParSpread(curve, maturity, gamma) ==
    IF gamma = None THEN Raise("TypeError")
    ELSE IF gamma[1] < 0 THEN Raise("InvalidParameterError")
    ELSE Ok(gamma[1])

\* HPCreditDefaultSwap(...).SurvivalProbability(gamma, t), as a fraction.
HP_SurvivalProbability(curve, maturity, gamma, t) ==
    IF gamma = None THEN Raise("TypeError")
    ELSE IF gamma[1] < 0 THEN Raise("InvalidParameterError")
    ELSE Ok(<<IF gamma[1] * t > 100 THEN 0 ELSE 100 - gamma[1] * t, 100>>)

\* IHPCreditDefaultSwap(tenors, DiscountCurve, maturity).ParSpread(gamma):
\* the average intensity up to the maturity; it reads one component of
\* gamma for each grid point up to the maturity.
IHP_ParSpread(tenors, curve, maturity, gamma) ==
    LET k == index(tenors, maturity) IN
    IF gamma = None THEN Raise("TypeError")
    ELSE IF Len(gamma) < k THEN Raise("IndexError")
    ELSE IF \E i \in 1..k : gamma[i] < 0 THEN Raise("InvalidParameterError")
    ELSE Ok(Hazard(tenors, gamma, k) \div maturity)

\* IHPCreditDefaultSwap(...).SurvivalProbability(gamma, t), as a fraction.
IHP_SurvivalProbability(tenors, curve, maturity, gamma, t) ==
    LET k == index(tenors, t)
        h == Hazard(tenors, gamma, k)
    IN
    IF gamma = None THEN Raise("TypeError")
    ELSE IF Len(gamma) < k THEN Raise("IndexError")
    ELSE IF \E i \in 1..k : gamma[i] < 0 THEN Raise("InvalidParameterError")
    ELSE Ok(<<IF h > 100 THEN 0 ELSE 100 - h, 100>>)

\* ---------------------------------------------------- objective functions
\* Mutant of Calibration_ObjectiveLoop: an observation the pricer cannot
\* evaluate is skipped instead of the exception leaving the loop.
RECURSIVE Calibration_ObjectiveLoop_Swallow(_, _, _, _, _)
Calibration_ObjectiveLoop_Swallow(curve, md, gamma, i, sum) ==
    IF i > Len(Data(md)) THEN Ok(sum)
    ELSE LET t == Data(md)[i][1]
             market_spread == Data(md)[i][2]
             model_spread == HP_ParSpread(curve, t, gamma)
         IN IF ~model_spread.ok
            THEN Calibration_ObjectiveLoop_Swallow(curve, md, gamma, i + 1,
                                                   sum)
            ELSE Calibration_ObjectiveLoop_Swallow(curve, md, gamma, i + 1,
                     sum + (model_spread.v - market_spread)
                           * (model_spread.v - market_spread))

\* The loop of Calibration.ObjectiveFunction from observation i on, with
\* the running sum; a raise in the pricer leaves the loop.
RECURSIVE Calibration_ObjectiveLoop(_, _, _, _, _)
Calibration_ObjectiveLoop(curve, md, gamma, i, sum) ==
    IF i > Len(Data(md)) THEN Ok(sum)
    ELSE LET t == Data(md)[i][1]
             market_spread == Data(md)[i][2]
             model_spread == HP_ParSpread(curve, t, gamma)
         IN IF ~model_spread.ok THEN model_spread
            ELSE Calibration_ObjectiveLoop(curve, md, gamma, i + 1,
                     sum + (model_spread.v - market_spread)
                           * (model_spread.v - market_spread))

Calibration_ObjectiveFunction(curve, md, gamma) ==
    Calibration_ObjectiveLoop(curve, md, gamma, 1, 0)

\* Mutant of Inhomogenous_ObjectiveLoop: the error is summed unsquared.
RECURSIVE Inhomogenous_ObjectiveLoop_Unsquared(_, _, _, _, _)
Inhomogenous_ObjectiveLoop_Unsquared(curve, md, gamma, i, sum) ==
    IF i > Len(Data(md)) THEN Ok(sum)
    ELSE LET t == Data(md)[i][1]
             market_spread == Data(md)[i][2]
             model_spread ==
                 IHP_ParSpread(sorted(Tenors(md)), curve, t, gamma)
         IN IF ~model_spread.ok THEN model_spread
            ELSE Inhomogenous_ObjectiveLoop_Unsquared(curve, md, gamma, i + 1,
                     sum + (model_spread.v - market_spread))

\* The loop of InhomogenousCalibration.ObjectiveFunction.
RECURSIVE Inhomogenous_ObjectiveLoop(_, _, _, _, _)
Inhomogenous_ObjectiveLoop(curve, md, gamma, i, sum) ==
    IF i > Len(Data(md)) THEN Ok(sum)
    ELSE LET t == Data(md)[i][1]
             market_spread == Data(md)[i][2]
             model_spread ==
                 IHP_ParSpread(sorted(Tenors(md)), curve, t, gamma)
         IN IF ~model_spread.ok THEN model_spread
            ELSE Inhomogenous_ObjectiveLoop(curve, md, gamma, i + 1,
                     sum + (model_spread.v - market_spread)
                           * (model_spread.v - market_spread))

Inhomogenous_ObjectiveFunction(curve, md, gamma) ==
    Inhomogenous_ObjectiveLoop(curve, md, gamma, 1, 0)

\* self.ObjectiveFunction: the method of the instance's class.
ObjectiveFunction(c, curve, md, gamma) ==
    IF c = "Calibration"
    THEN Calibration_ObjectiveFunction(curve, md, gamma)
    ELSE Inhomogenous_ObjectiveFunction(curve, md, gamma)

\* ------------------------------------------------------------- optimiser
\* scipy.optimize.fmin(func, x0, disp=0): the outcomes of one run.  The
\* simplex starts by evaluating func at x0 and then at vectors of the same
\* length; an exception raised by func leaves fmin; otherwise fmin ends with
\* a vector xopt that is no worse than x0 and with a status warnflag
\* (0 converged, 1 evaluation budget exhausted, 2 iteration budget
\* exhausted).
Run(ok, exc, c, x0, xopt, warnflag) ==
    [ok |-> ok, exc |-> exc, f |-> c, x0 |-> x0, xopt |-> xopt,
     warnflag |-> warnflag]

\* The ways a run that started at x0 with value f0 can end at the vector x
\* whose value is fx.
optimise_at(c, x0, f0, x, fx) ==
    IF ~fx.ok THEN {Run(FALSE, fx.exc, c, x0, None, 0)}
    ELSE IF fx.v <= f0.v
    THEN {Run(TRUE, "", c, x0, x, w) : w \in {0, 1, 2}}
    ELSE {}

optimise_from(c, curve, md, x0, f0) ==
    IF ~f0.ok THEN {Run(FALSE, f0.exc, c, x0, None, 0)}
    ELSE UNION {optimise_at(c, x0, f0, x, ObjectiveFunction(c, curve, md, x)) :
                   x \in Vectors(Len(x0))}

optimise(c, curve, md, x0) ==
    optimise_from(c, curve, md, x0, ObjectiveFunction(c, curve, md, x0))

\* ------------------------------------------------------- outcome of a call
\* What the caller of the last operation observed: the method, whether it
\* returned or raised, the exception, the argument, the returned value, what
\* it printed, the optimiser runs it made and the warnings it issued; entry
\* is the CalibrationState the instance was in when it was called.
NoRet ==
    [op |-> "__init__", entry |-> "Configured", kind |-> "return",
     exc |-> "", arg |-> None, value |-> None, printed |-> <<>>,
     calls |-> <<>>, warnings |-> {}]

\* The CalibrationState of an instance whose calibrated_gamma is gamma.
CalibrationState(gamma) ==
    IF gamma = None THEN "Configured" ELSE "Calibrated"

\* The outcome record of a call of op on an instance holding gamma.
Called(op, gamma) ==
    [NoRet EXCEPT !.op = op, !.entry = CalibrationState(gamma)]

\* ------------------------------------------------------------- Calibrate
\* Mutant of Calibrate_store: a vector already stored is not overwritten.
Calibrate_store_KeepFirst(run, old) ==
    IF run.ok /\ old = None THEN run.xopt ELSE old

\* Line 49: the value of calibrated_gamma after the optimiser run `run`.
Calibrate_store(run, old) ==
    IF run.ok THEN run.xopt ELSE old

\* Lines 45-50: what Calibrate hands to its caller after the run.
Calibrate_ret(run, old) ==
    [Called("Calibrate", old) EXCEPT
                  !.kind = IF run.ok THEN "return" ELSE "raise",
                  !.exc = run.exc,
                  !.value = IF run.ok THEN run.xopt ELSE None,
                  !.calls = <<run>>]

Calibrate ==
    /\ \E run \in optimise(cls, DiscountCurve, MarketData, Guess) :
          /\ calibrated_gamma' = Calibrate_store(run, calibrated_gamma)
          /\ ret' = Calibrate_ret(run, calibrated_gamma)
    /\ UNCHANGED <<cls, DiscountCurve, MarketData, CDS, Process, N, Guess>>

\* ------------------------------------------------------------------ RMSE
\* Mutant of RMSE_value: the divisor is reduced by the parameter count.
RMSE_value_DegreesOfFreedom(c, curve, md, n, gamma) ==
    LET s == ObjectiveFunction(c, curve, md, gamma)
    IN IF ~s.ok THEN s
       ELSE IF n - Len(gamma) = 0 THEN Raise("ZeroDivisionError")
       ELSE Ok(<<s.v, n - Len(gamma)>>)

\* Line 54: sqrt(ObjectiveFunction(calibrated_gamma) / N), the square root
\* kept as the quotient it is taken of.
RMSE_value(c, curve, md, n, gamma) ==
    LET s == ObjectiveFunction(c, curve, md, gamma)
    IN IF ~s.ok THEN s
       ELSE IF n = 0 THEN Raise("ZeroDivisionError")
       ELSE Ok(<<s.v, n>>)

RMSE ==
    /\ LET r == RMSE_value(cls, DiscountCurve, MarketData, N, calibrated_gamma)
       IN ret' = [Called("RMSE", calibrated_gamma) EXCEPT
                               !.kind = IF r.ok THEN "return" ELSE "raise",
                               !.exc = r.exc,
                               !.value = IF r.ok THEN r.v ELSE None]
    /\ UNCHANGED <<cls, DiscountCurve, MarketData, CDS, Process, N, Guess,
                   calibrated_gamma>>

\* ---------------------------------------------------- CalibrationResults
\* What a report has printed and summed when it ends or raises.
Report(ok, exc, rows, line, sum) ==
    [ok |-> ok, exc |-> exc, rows |-> rows, line |-> line, sum |-> sum]

\* Lines 77-90: the loop of Calibration.CalibrationResults over the sorted
\* observations `obs` from i on.  `line` is the LaTeX string being built; it
\* starts as self.Process, and None += str raises TypeError.
RECURSIVE Calibration_ResultsLoop(_, _, _, _, _, _, _, _)
Calibration_ResultsLoop(curve, obs, process, gamma, i, rows, line, sum) ==
    IF i > Len(obs) THEN Report(TRUE, "", rows, line, sum)
    ELSE LET t == obs[i][1]
             market_spread == obs[i][2]
             model_spread == HP_ParSpread(curve, t, gamma)
             survival_probability ==
                 HP_SurvivalProbability(curve, t, gamma, t)
             row == <<t, market_spread, model_spread.v,
                      <<survival_probability.v[1] * 100,
                        survival_probability.v[2]>> >>
         IN IF ~model_spread.ok
            THEN Report(FALSE, model_spread.exc, rows, line, sum)
            ELSE IF ~survival_probability.ok
            THEN Report(FALSE, survival_probability.exc, rows, line, sum)
            ELSE IF process = "None"
            THEN Report(FALSE, "TypeError", Append(rows, row), line, sum)
            ELSE Calibration_ResultsLoop(curve, obs, process, gamma, i + 1,
                     Append(rows, row), Append(line, model_spread.v),
                     sum + (model_spread.v - market_spread)
                           * (model_spread.v - market_spread))

\* Lines 68-96.  The returned value is None; the RMSE is only printed.
Calibration_CalibrationResults(curve, md, process, gamma) ==
    LET n == Len(Tenors(md))
        r == Calibration_ResultsLoop(curve, sortedData(md), process, gamma,
                                     1, <<>>, <<>>, 0)
    IN IF ~r.ok
       THEN [ok |-> FALSE, exc |-> r.exc, value |-> None,
             printed |-> [rows |-> r.rows, rmse |-> None, line |-> None]]
       ELSE IF n = 0
       THEN [ok |-> FALSE, exc |-> "ZeroDivisionError", value |-> None,
             printed |-> [rows |-> r.rows, rmse |-> None, line |-> None]]
       ELSE [ok |-> TRUE, exc |-> "", value |-> None,
             printed |-> [rows |-> r.rows, rmse |-> <<r.sum, n>>,
                          line |-> r.line]]

\* Lines 143-155: the loop of InhomogenousCalibration.CalibrationResults.
RECURSIVE Inhomogenous_ResultsLoop(_, _, _, _, _, _, _)
Inhomogenous_ResultsLoop(curve, md, obs, gamma, i, rows, sum) ==
    IF i > Len(obs) THEN Report(TRUE, "", rows, None, sum)
    ELSE LET t == obs[i][1]
             market_spread == obs[i][2]
             model_spread ==
                 IHP_ParSpread(sorted(Tenors(md)), curve, t, gamma)
             k == index(sorted(Tenors(md)), t)
             probability ==
                 IHP_SurvivalProbability(sorted(Tenors(md)), curve, t,
                                         gamma, t)
             row == <<t, market_spread, model_spread.v, gamma[k],
                      <<probability.v[1] * 100, probability.v[2]>> >>
         IN IF ~model_spread.ok
            THEN Report(FALSE, model_spread.exc, rows, None, sum)
            ELSE IF k > Len(gamma)
            THEN Report(FALSE, "IndexError", rows, None, sum)
            ELSE IF ~probability.ok
            THEN Report(FALSE, probability.exc, rows, None, sum)
            ELSE Inhomogenous_ResultsLoop(curve, md, obs, gamma, i + 1,
                     Append(rows, row),
                     sum + (model_spread.v - market_spread)
                           * (model_spread.v - market_spread))

\* Lines 136-159.  The returned value is the RMSE.
Inhomogenous_CalibrationResults(curve, md, gamma) ==
    LET n == Len(Tenors(md))
        r == Inhomogenous_ResultsLoop(curve, md, sortedData(md), gamma,
                                      1, <<>>, 0)
    IN IF ~r.ok
       THEN [ok |-> FALSE, exc |-> r.exc, value |-> None,
             printed |-> [rows |-> r.rows, rmse |-> None, line |-> None]]
       ELSE IF n = 0
       THEN [ok |-> FALSE, exc |-> "ZeroDivisionError", value |-> None,
             printed |-> [rows |-> r.rows, rmse |-> None, line |-> None]]
       ELSE [ok |-> TRUE, exc |-> "", value |-> <<r.sum, n>>,
             printed |-> [rows |-> r.rows, rmse |-> <<r.sum, n>>,
                          line |-> None]]

CalibrationResults ==
    /\ LET r == IF cls = "Calibration"
                THEN Calibration_CalibrationResults(DiscountCurve, MarketData,
                                                    Process, calibrated_gamma)
                ELSE Inhomogenous_CalibrationResults(DiscountCurve, MarketData,
                                                     calibrated_gamma)
       IN ret' = [Called("CalibrationResults", calibrated_gamma) EXCEPT
                               !.kind = IF r.ok THEN "return" ELSE "raise",
                               !.exc = r.exc,
                               !.value = r.value,
                               !.printed = r.printed]
    /\ UNCHANGED <<cls, DiscountCurve, MarketData, CDS, Process, N, Guess,
                   calibrated_gamma>>

\* ------------------------------------------------------- PrintParameters
\* Lines 98-104: one (i, param) entry per parameter, i from 0; enumerate
\* of None raises TypeError.
PrintParameters_value(gamma) ==
    IF gamma = None THEN Raise("TypeError")
    ELSE Ok([i \in 1..Len(gamma) |-> <<i - 1, gamma[i]>>])

PrintParameters ==
    /\ LET r == PrintParameters_value(calibrated_gamma)
       IN ret' = [Called("PrintParameters", calibrated_gamma) EXCEPT
                               !.kind = IF r.ok THEN "return" ELSE "raise",
                               !.exc = r.exc,
                               !.value = IF r.ok THEN r.v ELSE None]
    /\ UNCHANGED <<cls, DiscountCurve, MarketData, CDS, Process, N, Guess,
                   calibrated_gamma>>

\* ------------------------------------------------- ObjectiveFunction call
\* A direct call of the instance's ObjectiveFunction with a candidate
\* vector, as the optimiser or a driver makes it.
EvaluateObjective ==
    /\ \E gamma \in Vectors(Len(Guess)) :
          LET r == ObjectiveFunction(cls, DiscountCurve, MarketData, gamma)
          IN ret' = [Called("ObjectiveFunction", calibrated_gamma) EXCEPT
                                  !.kind = IF r.ok THEN "return" ELSE "raise",
                                  !.exc = r.exc,
                                  !.arg = gamma,
                                  !.value = IF r.ok THEN <<r.v>> ELSE None]
    /\ UNCHANGED <<cls, DiscountCurve, MarketData, CDS, Process, N, Guess,
                   calibrated_gamma>>

\* ------------------------------------------------------------ the caller
\* The driver changes the MarketData object the instance is bound to: it
\* adds an observation, removes one, or replaces a quoted spread.
Mutations(md) ==
    {Append(md, <<t, s>>) :
        t \in {u \in TenorVals : Len(md) < MaxTenors
                                 /\ \A i \in 1..Len(md) : md[i][1] # u},
        s \in SpreadVals}
    \cup
    {[j \in 1..(Len(md) - 1) |-> IF j < i THEN md[j] ELSE md[j + 1]] :
        i \in {k \in 1..Len(md) : Len(md) > 1}}
    \cup
    {[md EXCEPT ![p[1]] = <<md[p[1]][1], p[2]>>] :
        p \in {q \in (1..Len(md)) \X SpreadVals : md[q[1]][2] # q[2]}}

MutateMarketData ==
    /\ \E md \in Mutations(MarketData) : MarketData' = md
    /\ ret' = Called("MarketData", calibrated_gamma)
    /\ UNCHANGED <<cls, DiscountCurve, CDS, Process, N, Guess,
                   calibrated_gamma>>

\* ----------------------------------------------------------- construction
\* Lines 18-30: Calibration(DiscountCurve, MarketData, CDS, Process, Guess)
\* with the single-factor pricer and guess of the driver (lines 169-174);
\* Process may be left at its default None.
Calibration_init(md, process) ==
    /\ cls = "Calibration"
    /\ DiscountCurve = [r |-> 0]
    /\ MarketData = md
    /\ CDS = "HPCreditDefaultSwap"
    /\ Process = process
    /\ N = Len(Tenors(md))
    /\ Guess = <<GuessComponent>>
    /\ calibrated_gamma = None

\* Mutant of Inhomogenous_Guess: one component too few.
Inhomogenous_Guess_Short(n) == [i \in 1..(n - 1) |-> GuessComponent]

\* Line 122: the default guess, [0.01] * N.
Inhomogenous_Guess(n) == [i \in 1..n |-> GuessComponent]

\* Lines 113-122: InhomogenousCalibration(DiscountCurve, MarketData).
Inhomogenous_init(md) ==
    /\ cls = "InhomogenousCalibration"
    /\ DiscountCurve = [r |-> 0]
    /\ MarketData = md
    /\ CDS = "IHPCreditDefaultSwap"
    /\ Process = "IHP"
    /\ N = Len(Tenors(md))
    /\ Guess = Inhomogenous_Guess(Len(Tenors(md)))
    /\ calibrated_gamma = None

Init ==
    /\ \E md \in DataSets :
          \/ \E process \in {"None", "HP"} : Calibration_init(md, process)
          \/ Inhomogenous_init(md)
    /\ ret = NoRet

Next ==
    \/ Calibrate
    \/ RMSE
    \/ CalibrationResults
    \/ PrintParameters
    \/ EvaluateObjective
    \/ MutateMarketData

Spec == Init /\ [][Next]_vars

\* ======================================================================
\* Properties
\* ======================================================================
Queries == {"RMSE", "CalibrationResults", "PrintParameters"}

\* The pricer's answer for maturity t under gamma, for the instance's class.
ModelSpread(t, gamma) ==
    IF cls = "Calibration"
    THEN HP_ParSpread(DiscountCurve, t, gamma)
    ELSE IHP_ParSpread(sorted(Tenors(MarketData)), DiscountCurve, t, gamma)

\* The observations of the bound MarketData, as a set.
Observations == {MarketData[i] : i \in 1..Len(MarketData)}

\* The sum of the squared spread errors over a set of observations.
RECURSIVE SquaredErrors(_, _)
SquaredErrors(S, gamma) ==
    IF S = {} THEN 0
    ELSE LET p == CHOOSE q \in S : TRUE
             e == ModelSpread(p[1], gamma).v - p[2]
         IN e * e + SquaredErrors(S \ {p}, gamma)

\* C1: a query made while calibrated_gamma is still None fails with a
\* StateError.
C1_QueryBeforeCalibrateIsStateError ==
    (ret.op \in Queries /\ ret.entry = "Configured")
        => (ret.kind = "raise" /\ ret.exc = "StateError")

\* C2: when the optimiser ends without converging, the vector is stored and
\* the caller of Calibrate is told so by a convergence warning.
C2_NonConvergenceIsReported ==
    (ret.op = "Calibrate" /\ ret.kind = "return"
        /\ ret.calls[1].warnflag # 0)
        => (/\ calibrated_gamma = ret.calls[1].xopt
            /\ "ConvergenceWarning" \in ret.warnings)

\* C3: a Calibrate call that returns has run the optimiser exactly once, on
\* the instance's own ObjectiveFunction and its bound Guess, and
\* calibrated_gamma and the returned value are the vector that run produced,
\* also when the instance was calibrated before.
C3_CalibrateStoresOptimiserResult ==
    (ret.op = "Calibrate" /\ ret.kind = "return")
        => (/\ Len(ret.calls) = 1
            /\ ret.calls[1].ok
            /\ ret.calls[1].f = cls
            /\ ret.calls[1].x0 = Guess
            /\ calibrated_gamma = ret.calls[1].xopt
            /\ ret.value = ret.calls[1].xopt)

\* C3 witness: a re-calibration that replaced the stored vector by another.
C3_Witness ==
    /\ ret.op = "Calibrate" /\ ret.kind = "return"
    /\ ret.entry = "Calibrated"
    /\ calibrated_gamma = ret.value
    /\ calibrated_gamma # Guess

\* C4: on a calibrated instance RMSE()^2 * N = ObjectiveFunction(
\* calibrated_gamma), N being the tenor count the instance holds for its
\* MarketData, with nothing subtracted for the parameters.
C4_RMSESquaredTimesN ==
    (ret.op = "RMSE" /\ ret.entry = "Calibrated" /\ ret.kind = "return")
        => LET objective == ObjectiveFunction(cls, DiscountCurve, MarketData,
                                              calibrated_gamma)
           IN /\ objective.ok
              /\ ret.value[2] > 0
              /\ ret.value[1] * N = objective.v * ret.value[2]

\* C4 witness: RMSE returned a non-zero value on a calibrated inhomogeneous
\* instance, where the parameter count equals the tenor count.
C4_Witness ==
    /\ ret.op = "RMSE" /\ ret.entry = "Calibrated" /\ ret.kind = "return"
    /\ cls = "InhomogenousCalibration"
    /\ Len(calibrated_gamma) = N
    /\ ret.value[1] > 0

\* C5: where the pricer evaluates at every observation, ObjectiveFunction
\* returns the plain sum of the squared spread errors over the observations;
\* the value is never negative, and is zero exactly when the model spread
\* equals the market spread at every tenor.
C5_ObjectiveIsSumOfSquares ==
    (ret.op = "ObjectiveFunction")
        => /\ (\A p \in Observations : ModelSpread(p[1], ret.arg).ok)
                  => ret.kind = "return"
           /\ ret.kind = "return"
                  => /\ ret.value[1] = SquaredErrors(Observations, ret.arg)
                     /\ ret.value[1] >= 0
                     /\ (ret.value[1] = 0) <=>
                            (\A p \in Observations :
                                ModelSpread(p[1], ret.arg).v = p[2])

\* C5 witness: an evaluation over two observations with a non-zero sum.
C5_Witness ==
    /\ ret.op = "ObjectiveFunction" /\ ret.kind = "return"
    /\ Len(MarketData) = 2
    /\ ret.value[1] > 0

\* C6: the inhomogeneous default guess has N equal positive components; a
\* stored vector has as many components as the guess, so N for the
\* inhomogeneous and 1 for the single-factor homogeneous instance.
C6_VectorLengths ==
    /\ cls = "InhomogenousCalibration"
          => /\ Len(Guess) = N
             /\ \A i \in 1..Len(Guess) : Guess[i] = Guess[1] /\ Guess[i] > 0
    /\ calibrated_gamma # None
          => /\ Len(calibrated_gamma) = Len(Guess)
             /\ cls = "InhomogenousCalibration" => Len(calibrated_gamma) = N
             /\ (cls = "Calibration" /\ Len(Guess) = 1)
                    => Len(calibrated_gamma) = 1

\* C6 witness: a calibrated inhomogeneous instance over two tenors.
C6_Witness ==
    /\ cls = "InhomogenousCalibration"
    /\ N = 2
    /\ calibrated_gamma # None
    /\ ret.op = "Calibrate" /\ ret.kind = "return"

\* C7: on a calibrated instance whose MarketData still has the tenor count
\* it was bound with, each query succeeds without running the optimiser.
C7_QueriesSucceedWhenCalibrated ==
    (ret.op \in Queries /\ ret.entry = "Calibrated"
        /\ Len(Tenors(MarketData)) = N)
        => (ret.kind = "return" /\ ret.calls = <<>>)

\* C7, the frame part: a query runs no optimiser and changes nothing the
\* instance holds, whatever it returns or raises.
C7_QueriesChangeNothing ==
    [][ret'.op \in Queries
          => /\ ret'.calls = <<>>
             /\ UNCHANGED <<cls, DiscountCurve, MarketData, CDS, Process, N,
                            Guess, calibrated_gamma>>]_vars

\* C8: an inhomogeneous Calibrate whose guess length differs from the
\* current tenor count fails with a DimensionMismatchError and stores
\* nothing.
C8_MismatchIsRejected ==
    (ret.op = "Calibrate" /\ cls = "InhomogenousCalibration"
        /\ Len(Guess) # Len(Tenors(MarketData)))
        => (/\ ret.kind = "raise"
            /\ ret.exc = "DimensionMismatchError"
            /\ ret.entry = "Configured" => calibrated_gamma = None)

\* C9, for an ObjectiveFunction call: the exception of the first observation
\* whose pricing raises is the exception the call raises.
C9_ObjectivePropagates ==
    (ret.op = "ObjectiveFunction"
        /\ \E i \in 1..Len(MarketData) :
              ~ModelSpread(MarketData[i][1], ret.arg).ok)
        => /\ ret.kind = "raise"
           /\ \E i \in 1..Len(MarketData) :
                 /\ ~ModelSpread(MarketData[i][1], ret.arg).ok
                 /\ ret.exc = ModelSpread(MarketData[i][1], ret.arg).exc
                 /\ \A j \in 1..(i - 1) :
                       ModelSpread(MarketData[j][1], ret.arg).ok

\* C9, for Calibrate: an exception that leaves the optimiser run leaves
\* Calibrate.
C9_CalibrateRaises ==
    (ret.op = "Calibrate" /\ ~ret.calls[1].ok)
        => (ret.kind = "raise" /\ ret.exc = ret.calls[1].exc)

\* C9: an exception raised by the pricer during an objective evaluation
\* propagates out of ObjectiveFunction; inside Calibrate it reaches the
\* caller and calibrated_gamma keeps the value it had before the call.
C9_PricerErrorAbortsCalibrate ==
    /\ [](C9_ObjectivePropagates /\ C9_CalibrateRaises)
    /\ [][(ret'.op = "Calibrate" /\ ret'.kind = "raise")
              => calibrated_gamma' = calibrated_gamma]_vars

\* C9 witness: a re-calibration aborted by an InvalidParameterError, the
\* previous fit still stored.
C9_Witness ==
    /\ ret.op = "Calibrate" /\ ret.kind = "raise"
    /\ ret.exc = "InvalidParameterError"
    /\ ret.entry = "Calibrated"
    /\ calibrated_gamma # None

\* C10: on a calibrated instance the RMSE the report computes equals the
\* value of RMSE(), and CalibrationResults returns it.
C10_ReportRMSEEqualsRMSE ==
    (ret.op = "CalibrationResults" /\ ret.entry = "Calibrated"
        /\ ret.kind = "return")
        => LET rmse == RMSE_value(cls, DiscountCurve, MarketData, N,
                                  calibrated_gamma)
           IN /\ rmse.ok
              /\ ret.printed.rmse[1] * rmse.v[2]
                     = rmse.v[1] * ret.printed.rmse[2]
              /\ ret.value = ret.printed.rmse

====
